---- MODULE Spec2Model ----
(***************************************************************************)
(* gowebwatcher: the event-coalescing loop (processFsEvents), the ignore   *)
(* matcher (shouldIgnore), the flush filter (cleanEvents), the client      *)
(* registry (wshandler) and the broadcaster (notifyBrowsers).              *)
(*                                                                         *)
(* A path is a sequence of one-character strings, so that path.Base,       *)
(* strings.HasPrefix, strings.Contains and the regexp match are computed   *)
(* on the characters, as the Go code computes them.                        *)
(***************************************************************************)
EXTENDS Naturals, Sequences, FiniteSets

\* ------------------------------------------------------------------ bounds
\* The longest pending event buffer the model lets processFsEvents build.
MaxEvents == 2
\* The number of websocket clients that connect.
NumClients == 3

Clients == 1..NumClients

\* ------------------------------------------------------------ the file tree
\* The names the raw event source reports.  Each name has a fixed kind.
pPlain     == <<"a">>
pHidden    == <<".", "h">>
pSharpMid  == <<"a", "#">>
pSharpPre  == <<"#", "t">>
pPattern   == <<"x", ".", "t">>
pDir       == <<"d">>
pHiddenDir == <<".", "g">>
pInDir     == <<"d", "/", "a">>
pRoot      == <<".">>

Dirs  == {pDir, pHiddenDir}
Files == {pPlain, pHidden, pSharpMid, pSharpPre, pPattern, pInDir}
Paths == Dirs \cup Files

\* -------------------------------------------------------- string functions
\* strings.HasPrefix(s, c) for a one-character prefix c.
HasPrefix(s, c) == Len(s) >= 1 /\ s[1] = c

\* strings.Contains(s, c) for a one-character needle c.
Contains(s, c) == \E k \in 1..Len(s) : s[k] = c

\* strings.HasSuffix(s, t).
HasSuffix(s, t) ==
    /\ Len(t) <= Len(s)
    /\ \A k \in 1..Len(t) : s[Len(s) - Len(t) + k] = t[k]

\* Whether t occurs in s as a substring.
HasSubstr(s, t) ==
    \E o \in 0..(Len(s) - Len(t)) : \A k \in 1..Len(t) : s[o + k] = t[k]

RECURSIVE StripSlashes(_)
\* path.Base: "Strip trailing slashes".
StripSlashes(s) ==
    IF Len(s) > 0 /\ s[Len(s)] = "/" THEN StripSlashes(SubSeq(s, 1, Len(s) - 1))
    ELSE s

RECURSIVE LastElem(_)
\* path.Base: "Find the last element" (what follows the last slash).
LastElem(s) ==
    IF ~Contains(s, "/") THEN s ELSE LastElem(Tail(s))

\* path.Base(file).
Base(s) ==
    IF s = <<>> THEN <<".">>
    ELSE LET t == StripSlashes(s)
             u == LastElem(t)
         IN  IF u = <<>> THEN <<"/">> ELSE u

\* ------------------------------------------------------------ the patterns
\* The -ignores flag: `\.t$,,[` (one good pattern, an empty entry, a
\* malformed one).
ignores == <<"\\", ".", "t", "$", ",", ",", "[">>

RECURSIVE Split(_, _)
\* strings.Split(s, sep) for a one-character separator.
Split(s, sep) ==
    IF ~Contains(s, sep) THEN <<s>>
    ELSE LET k == CHOOSE k \in 1..Len(s) :
                      s[k] = sep /\ \A j \in 1..(k - 1) : s[j] # sep
         IN  <<SubSeq(s, 1, k - 1)>> \o Split(SubSeq(s, k + 1, Len(s)), sep)

RECURSIVE Compile(_)
\* regexp.Compile on the syntax the flag uses: literal characters, a
\* backslash-escaped character, a final `$`; an unclosed `[` or a trailing
\* backslash is a compile error.  The result is [ok, lit, atEnd].
Compile(s) ==
    IF s = <<>> THEN [ok |-> TRUE, lit |-> <<>>, atEnd |-> FALSE]
    ELSE IF s = <<"$">> THEN [ok |-> TRUE, lit |-> <<>>, atEnd |-> TRUE]
    ELSE IF Head(s) = "[" THEN [ok |-> FALSE, lit |-> <<>>, atEnd |-> FALSE]
    ELSE IF Head(s) = "\\" THEN
        IF Len(s) < 2 THEN [ok |-> FALSE, lit |-> <<>>, atEnd |-> FALSE]
        ELSE LET r == Compile(SubSeq(s, 3, Len(s)))
             IN  [r EXCEPT !.lit = <<s[2]>> \o @]
    ELSE LET r == Compile(Tail(s))
         IN  [r EXCEPT !.lit = <<Head(s)>> \o @]

RECURSIVE compileLoop(_)
\* compilePatterns' loop over the split entries: empty entries are skipped,
\* entries that do not compile are dropped.
compileLoop(entries) ==
    IF entries = <<>> THEN <<>>
    ELSE LET s == Head(entries)
             p == Compile(s)
         IN  (IF Len(s) > 0 /\ p.ok THEN <<p>> ELSE <<>>)
                 \o compileLoop(Tail(entries))

\* compilePatterns(): config.ignorePatterns.
ignorePatterns == compileLoop(Split(ignores, ","))

\* p.Find([]byte(file)) != nil
Find(p, file) ==
    IF p.atEnd THEN HasSuffix(file, p.lit) ELSE HasSubstr(file, p.lit)

\* shouldIgnore without its loop over the compiled patterns.
shouldIgnoreBuiltinOnly(file) ==
    LET base == Base(file)
    IN  Len(base) > 1 /\ (HasPrefix(base, ".") \/ HasPrefix(base, "#"))

\* shouldIgnore(file)
shouldIgnore(file) ==
    \/ \E k \in 1..Len(ignorePatterns) : Find(ignorePatterns[k], file)
    \/ LET base == Base(file)
       IN  Len(base) > 1 /\ (HasPrefix(base, ".") \/ HasPrefix(base, "#"))

\* --------------------------------------------------------------- the state
VARIABLES
    pc,         \* main and then processFsEvents: "walk" (startMonitorFs),
                \*   "select", its place inside notifyBrowsers, or how the
                \*   process ended ("fatal": log.Fatal, "panic")
    walk,       \* startMonitorFs: the directories filepath.Walk has yet to visit
    events,     \* processFsEvents' local slice of buffered events
    watched,    \* the directories config.fsWatcher watches
    conns,      \* config.clients.conns
    mutex,      \* config.clients' sync.Mutex: free, or who holds it
    rng,        \* notifyBrowsers: the slice its range loop iterates
    i,          \* notifyBrowsers: the range loop's index (1-based)
    defers,     \* notifyBrowsers: its stack of deferred c.Close() calls
    hpc,        \* per client: wshandler's place ("lock", "cs", "read", "done")
    connState,  \* per client connection: "open", "stalled" (the peer does not
                \*   read and a write would not complete), "broken" (peer
                \*   gone), "closed"
    writes,     \* per client connection: the number of c.Write calls made on it
    delivered,  \* per client connection: the number of messages that reached it
    wrote,      \* history: the connections written by the running notifyBrowsers
    failed,     \* history: the connections whose write failed in the running call
    calls,      \* history: the notifyBrowsers calls the last timer tick made
    tickInput,  \* history: the buffer the tick handed to cleanEvents, until Lock()
    window,     \* history: the raw events received since the last tick: "empty",
                \*   "ignored" (only files matching an ignore pattern), "dirs"
                \*   (only non-delete events of directories), "errs" (only
                \*   events whose Lstat failed), "mixed"
    tickSaw     \* history: the value of window at the last tick

vars == <<pc, walk, events, watched, conns, mutex, rng, i, defers, hpc, connState,
          writes, delivered, wrote, failed, calls, tickInput, window,
          tickSaw>>

coalescerVars == <<pc, walk, events, watched, calls, tickInput, window, tickSaw>>
broadcastVars == <<rng, i, defers, wrote, failed>>
handlerVars   == <<hpc>>

\* The values of mutex.
Free        == <<"free">>
HeldByNb    == <<"notifyBrowsers">>
HeldByWs(c) == <<"wshandler", c>>

\* *fsnotify.FileEvent: its Name and what IsDelete() answers.
FileEvent(name, isDelete) == [Name |-> name, IsDelete |-> isDelete]

\* ------------------------------------------------------------- cleanEvents
\* keepEvent without the test for '#' in the base filename.
keepEventAnyBase(v, m) ==
    v.Name \notin m

\* The test of cleanEvents' loop body: not seen yet, and no '#' in the base.
keepEvent(v, m) ==
    /\ v.Name \notin m
    /\ ~Contains(Base(v.Name), "#")

RECURSIVE cleanLoopWholeSlice(_, _, _)
\* cleanLoop returning the whole slice instead of events[:len(m)].
cleanLoopWholeSlice(arr, k, m) ==
    IF k > Len(arr) THEN arr
    ELSE LET v == arr[k]
         IN  IF keepEvent(v, m)
             THEN cleanLoopWholeSlice([arr EXCEPT ![Cardinality(m) + 1] = v],
                                      k + 1, m \cup {v.Name})
             ELSE cleanLoopWholeSlice(arr, k + 1, m)

RECURSIVE cleanLoop(_, _, _)
\* cleanEvents' loop: arr is the slice's backing array (written in place),
\* k the range index, m the keys of the map of names seen.
cleanLoop(arr, k, m) ==
    IF k > Len(arr) THEN SubSeq(arr, 1, Cardinality(m))
    ELSE LET v == arr[k]
         IN  IF keepEvent(v, m)
             THEN cleanLoop([arr EXCEPT ![Cardinality(m) + 1] = v], k + 1,
                            m \cup {v.Name})
             ELSE cleanLoop(arr, k + 1, m)

\* cleanEvents(events)
cleanEvents(evs) == cleanLoop(evs, 1, {})

\* ----------------------------------------------------------- startMonitorFs
\* The order in which filepath.Walk visits the directories (lexical).  The
\* tree at startup holds the root and, possibly, the hidden directory; the
\* directory d is created while the program runs.
WalkOrder == <<pRoot, pHiddenDir>>

\* The directories filepath.Walk visits when `existing` are those on disk.
WalkList(existing) ==
    LET Visited(d) == d \in {pRoot} \cup existing
    IN  SelectSeq(WalkOrder, Visited)

\* ---------------------------------------------------------------------- Init
\* main has parsed the flags and compiled the patterns, and calls
\* startMonitorFs; no client is connected.
Init ==
    /\ pc = "walk"
    /\ \E existing \in SUBSET {pHiddenDir} : walk = WalkList(existing)
    /\ events = <<>>
    /\ watched = {}
    /\ conns = <<>>
    /\ mutex = Free
    /\ rng = <<>>
    /\ i = 0
    /\ defers = <<>>
    /\ hpc = [c \in Clients |-> "lock"]
    /\ connState = [c \in Clients |-> "open"]
    /\ writes = [c \in Clients |-> 0]
    /\ delivered = [c \in Clients |-> 0]
    /\ wrote = <<>>
    /\ failed = {}
    /\ calls = 0
    /\ tickInput = <<>>
    /\ window = "empty"
    /\ tickSaw = "empty"

\* What startMonitorFs and the walk leave alone.
walkFrame ==
    /\ UNCHANGED <<events, calls, tickInput, window, tickSaw>>
    /\ UNCHANGED <<conns, mutex, connState, writes, delivered>>
    /\ UNCHANGED <<rng, i, defers, wrote, failed>>
    /\ UNCHANGED hpc

\* walkFn on the next directory of the walk.  entryOk: filepath.Walk could
\* Lstat the entry (if not, info is nil and err is set; walkFn does not
\* return on err and calls info.IsDir()).  watchOk: watcher.Watch returned
\* no error (if it did, walkFn calls log.Fatal).
WalkFn(entryOk, watchOk) ==
    /\ pc = "walk"
    /\ walk # <<>>
    /\ LET path == Head(walk)
       IN  IF ~entryOk
           THEN /\ pc' = "panic"
                /\ UNCHANGED <<walk, watched>>
           ELSE IF shouldIgnore(path)
           THEN /\ walk' = Tail(walk)
                /\ UNCHANGED <<pc, watched>>
           ELSE IF watchOk
           THEN /\ watched' = watched \cup {path}
                /\ walk' = Tail(walk)
                /\ UNCHANGED pc
           ELSE /\ pc' = "fatal"
                /\ UNCHANGED <<walk, watched>>
    /\ walkFrame

\* filepath.Walk returns; main starts processFsEvents and serves.
WalkDone ==
    /\ pc = "walk"
    /\ walk = <<>>
    /\ pc' = "select"
    /\ UNCHANGED <<walk, watched>>
    /\ walkFrame

\* main has reached http.ListenAndServe and the process is alive.
Serving == pc \notin {"walk", "fatal", "panic"}

\* --------------------------------------------------------- processFsEvents
\* os.Lstat(ev.Name): an error, or the kind of the name.
Lstat(p) == {"err", IF p \in Dirs THEN "dir" ELSE "file"}

\* case ev := <-config.fsWatcher.Event, ev.IsDelete().  werr: RemoveWatch
\* returns an error (nobody looks at it) and removes nothing.
OnDelete(p, werr) ==
    /\ watched' = IF werr THEN watched ELSE watched \ {p}
    /\ events' = Append(events, FileEvent(p, TRUE))

\* OnStatError that records the event all the same.
OnStatErrorBuffers(p) ==
    /\ events' = Append(events, FileEvent(p, FALSE))
    /\ UNCHANGED watched

\* os.Lstat failed: the error is logged.
OnStatError(p) ==
    UNCHANGED <<events, watched>>

\* OnDir without the call of Watch.
OnDirNoWatch(p, werr) ==
    UNCHANGED <<events, watched>>

\* fi.IsDir().  werr: Watch returns an error (nobody looks at it) and adds
\* nothing.
OnDir(p, werr) ==
    /\ watched' = IF ~shouldIgnore(p) /\ ~werr THEN watched \cup {p}
                   ELSE watched
    /\ UNCHANGED events

\* a file that is not a directory
OnFile(p) ==
    /\ events' = IF ~shouldIgnore(p) THEN Append(events, FileEvent(p, FALSE))
                  ELSE events
    /\ UNCHANGED watched

\* Whether some compiled ignore pattern matches the name.
MatchesPattern(p) ==
    \E k \in 1..Len(ignorePatterns) : Find(ignorePatterns[k], p)

\* The kind of a raw event, for the history of the window.
Kind(p, isDelete, st) ==
    IF isDelete THEN "mixed"
    ELSE IF st = "err" THEN "errs"
    ELSE IF st = "dir" THEN "dirs"
    ELSE IF MatchesPattern(p) THEN "ignored"
    ELSE "mixed"

\* The history of the window after one more raw event.
Seen(p, isDelete, st) ==
    IF window \in {"empty", Kind(p, isDelete, st)}
    THEN Kind(p, isDelete, st)
    ELSE "mixed"

\* FsEvent without the fi.IsDir() test: a directory is handled as a file.
FsEventNoDirTest(p, isDelete, st, werr) ==
    /\ pc = "select"
    /\ IF isDelete THEN OnDelete(p, werr)
       ELSE IF st = "err" THEN OnStatError(p)
       ELSE OnFile(p)
    /\ window' = Seen(p, isDelete, st)
    /\ UNCHANGED <<pc, walk, calls, tickInput, tickSaw>>
    /\ UNCHANGED <<conns, mutex, connState, writes, delivered>>
    /\ UNCHANGED broadcastVars
    /\ UNCHANGED handlerVars

\* The select's event case, for the event of name p (isDelete: what
\* ev.IsDelete() answers; st: what os.Lstat answers; werr: whether the
\* watcher call the case makes returns an error).
FsEvent(p, isDelete, st, werr) ==
    /\ pc = "select"
    /\ IF isDelete THEN OnDelete(p, werr)
       ELSE IF st = "err" THEN OnStatError(p)
       ELSE IF st = "dir" THEN OnDir(p, werr)
       ELSE OnFile(p)
    /\ window' = Seen(p, isDelete, st)
    /\ UNCHANGED <<pc, walk, calls, tickInput, tickSaw>>
    /\ UNCHANGED <<conns, mutex, connState, writes, delivered>>
    /\ UNCHANGED broadcastVars
    /\ UNCHANGED handlerVars

\* Tick with its test written len(events) > 1.
TickOffByOne ==
    /\ pc = "select"
    /\ IF Len(events) > 1
       THEN /\ events' = cleanEvents(events)
            /\ tickInput' = events
            /\ calls' = 1
            /\ pc' = "nbLock"
       ELSE /\ calls' = 0
            /\ UNCHANGED <<events, tickInput, pc>>
    /\ tickSaw' = window
    /\ window' = "empty"
    /\ UNCHANGED <<walk, watched, conns, mutex, connState, writes, delivered>>
    /\ UNCHANGED broadcastVars
    /\ UNCHANGED handlerVars

\* The select's timer case, up to the call of notifyBrowsers.
Tick ==
    /\ pc = "select"
    /\ IF Len(events) > 0
       THEN /\ events' = cleanEvents(events)
            /\ tickInput' = events
            /\ calls' = 1
            /\ pc' = "nbLock"
       ELSE /\ calls' = 0
            /\ UNCHANGED <<events, tickInput, pc>>
    /\ tickSaw' = window
    /\ window' = "empty"
    /\ UNCHANGED <<walk, watched, conns, mutex, connState, writes, delivered>>
    /\ UNCHANGED broadcastVars
    /\ UNCHANGED handlerVars

\* ---------------------------------------------------------- notifyBrowsers
\* config.clients.Lock(), and the range expression's evaluation.
NbLock ==
    /\ pc = "nbLock"
    /\ mutex = Free
    /\ mutex' = HeldByNb
    /\ rng' = conns
    /\ i' = 1
    /\ tickInput' = <<>>
    /\ pc' = "nbLoop"
    /\ UNCHANGED <<walk, events, watched, calls, window, tickSaw>>
    /\ UNCHANGED <<conns, defers, wrote, failed>>
    /\ UNCHANGED <<connState, writes, delivered>>
    /\ UNCHANGED handlerVars

\* NbWrite leaving the loop when a write fails.
NbWriteStopOnError ==
    /\ pc = "nbLoop"
    /\ i <= Len(rng)
    /\ connState[rng[i]] # "stalled"
    /\ LET c == rng[i]
       IN  /\ defers' = <<c>> \o defers
           /\ writes' = [writes EXCEPT ![c] = @ + 1]
           /\ wrote' = Append(wrote, c)
           /\ IF connState[c] = "open"
              THEN /\ delivered' = [delivered EXCEPT ![c] = @ + 1]
                   /\ failed' = failed
                   /\ i' = i + 1
              ELSE /\ delivered' = delivered
                   /\ failed' = failed \cup {c}
                   /\ i' = Len(rng) + 1
    /\ UNCHANGED <<pc, rng, conns, mutex, connState>>
    /\ UNCHANGED <<walk, events, watched, calls, tickInput, window, tickSaw>>
    /\ UNCHANGED handlerVars

\* One iteration: defer c.Close(); c.Write(reload), its error not looked at.
\* The write to a stalled connection does not return.
NbWrite ==
    /\ pc = "nbLoop"
    /\ i <= Len(rng)
    /\ connState[rng[i]] # "stalled"
    /\ LET c == rng[i]
       IN  /\ defers' = <<c>> \o defers
           /\ writes' = [writes EXCEPT ![c] = @ + 1]
           /\ wrote' = Append(wrote, c)
           /\ IF connState[c] = "open"
              THEN /\ delivered' = [delivered EXCEPT ![c] = @ + 1]
                   /\ failed' = failed
              ELSE /\ delivered' = delivered
                   /\ failed' = failed \cup {c}
    /\ i' = i + 1
    /\ UNCHANGED <<pc, rng, conns, mutex, connState>>
    /\ UNCHANGED <<walk, events, watched, calls, tickInput, window, tickSaw>>
    /\ UNCHANGED handlerVars

\* NbClear with the loop left one connection early.
NbClearEarly ==
    /\ pc = "nbLoop"
    /\ i >= Len(rng)
    /\ conns' = <<>>
    /\ pc' = "nbDefer"
    /\ UNCHANGED <<mutex, connState, writes, delivered>>
    /\ UNCHANGED <<walk, events, watched, calls, tickInput, window, tickSaw>>
    /\ UNCHANGED broadcastVars
    /\ UNCHANGED handlerVars

\* config.clients.conns = make([]*websocket.Conn, 0)
NbClear ==
    /\ pc = "nbLoop"
    /\ i > Len(rng)
    /\ conns' = <<>>
    /\ pc' = "nbDefer"
    /\ UNCHANGED <<mutex, connState, writes, delivered>>
    /\ UNCHANGED <<walk, events, watched, calls, tickInput, window, tickSaw>>
    /\ UNCHANGED broadcastVars
    /\ UNCHANGED handlerVars

\* A deferred c.Close(), last deferred first.
NbClose ==
    /\ pc = "nbDefer"
    /\ defers # <<>>
    /\ connState' = [connState EXCEPT ![Head(defers)] = "closed"]
    /\ defers' = Tail(defers)
    /\ UNCHANGED <<pc, rng, i, wrote, failed, conns, mutex, writes, delivered>>
    /\ UNCHANGED <<walk, events, watched, calls, tickInput, window, tickSaw>>
    /\ UNCHANGED handlerVars

\* NbReturn without the tick case's reset of the buffer.
NbReturnKeepsBuffer ==
    /\ pc = "nbDefer"
    /\ defers = <<>>
    /\ mutex' = Free
    /\ pc' = "select"
    /\ rng' = <<>>
    /\ i' = 0
    /\ wrote' = <<>>
    /\ failed' = {}
    /\ UNCHANGED <<defers, conns, connState, writes, delivered>>
    /\ UNCHANGED <<walk, events, watched, calls, tickInput, window, tickSaw>>
    /\ UNCHANGED handlerVars

\* The deferred config.clients.Unlock(), the return, and the tick case's
\* events = make([]*fsnotify.FileEvent, 0).
NbReturn ==
    /\ pc = "nbDefer"
    /\ defers = <<>>
    /\ mutex' = Free
    /\ events' = <<>>
    /\ pc' = "select"
    /\ rng' = <<>>
    /\ i' = 0
    /\ wrote' = <<>>
    /\ failed' = {}
    /\ UNCHANGED <<defers, conns, connState, writes, delivered>>
    /\ UNCHANGED <<walk, watched, calls, tickInput, window, tickSaw>>
    /\ UNCHANGED handlerVars

\* ---------------------------------------------------------------- wshandler
\* WsLock without waiting for the mutex.
WsLockNoWait(c) ==
    /\ Serving
    /\ hpc[c] = "lock"
    /\ mutex' = HeldByWs(c)
    /\ hpc' = [hpc EXCEPT ![c] = "cs"]
    /\ UNCHANGED <<conns, connState, writes, delivered>>
    /\ UNCHANGED coalescerVars
    /\ UNCHANGED broadcastVars

\* A client has connected; wshandler's config.clients.Lock().
WsLock(c) ==
    /\ Serving
    /\ hpc[c] = "lock"
    /\ mutex = Free
    /\ mutex' = HeldByWs(c)
    /\ hpc' = [hpc EXCEPT ![c] = "cs"]
    /\ UNCHANGED <<conns, connState, writes, delivered>>
    /\ UNCHANGED coalescerVars
    /\ UNCHANGED broadcastVars

\* WsAppend without its Unlock().
WsAppendKeepsLock(c) ==
    /\ hpc[c] = "cs"
    /\ conns' = Append(conns, c)
    /\ hpc' = [hpc EXCEPT ![c] = "read"]
    /\ UNCHANGED <<mutex, connState, writes, delivered>>
    /\ UNCHANGED coalescerVars
    /\ UNCHANGED broadcastVars

\* config.clients.conns = append(config.clients.conns, ws); Unlock()
WsAppend(c) ==
    /\ hpc[c] = "cs"
    /\ conns' = Append(conns, c)
    /\ mutex' = Free
    /\ hpc' = [hpc EXCEPT ![c] = "read"]
    /\ UNCHANGED <<connState, writes, delivered>>
    /\ UNCHANGED coalescerVars
    /\ UNCHANGED broadcastVars

\* ws.Read(nil) returns: the connection is gone (the peer left, or the
\* broadcast closed it); wshandler returns.
WsReadReturn(c) ==
    /\ hpc[c] = "read"
    /\ connState[c] \in {"broken", "closed"}
    /\ hpc' = [hpc EXCEPT ![c] = "done"]
    /\ UNCHANGED <<conns, mutex, connState, writes, delivered>>
    /\ UNCHANGED coalescerVars
    /\ UNCHANGED broadcastVars

\* The browser leaves (page closed, network gone).
PeerDisconnect(c) ==
    /\ hpc[c] \in {"cs", "read"}
    /\ connState[c] \in {"open", "stalled"}
    /\ connState' = [connState EXCEPT ![c] = "broken"]
    /\ UNCHANGED <<conns, mutex, writes, delivered>>
    /\ UNCHANGED coalescerVars
    /\ UNCHANGED broadcastVars
    /\ UNCHANGED handlerVars

\* The browser stops reading: a write to the connection would not complete.
PeerStall(c) ==
    /\ hpc[c] \in {"cs", "read"}
    /\ connState[c] = "open"
    /\ connState' = [connState EXCEPT ![c] = "stalled"]
    /\ UNCHANGED <<conns, mutex, writes, delivered>>
    /\ UNCHANGED coalescerVars
    /\ UNCHANGED broadcastVars
    /\ UNCHANGED handlerVars

\* ---------------------------------------------------------------------- Next
\* main's startup: the walk of startMonitorFs.
StartStep ==
    \/ \E entryOk, watchOk \in BOOLEAN : WalkFn(entryOk, watchOk)
    \/ WalkDone

\* The raw event source delivers an event for one of `paths`; the buffer is
\* kept to at most `cap` events.
\* What os.Lstat may answer in the event case: it is not called on a delete
\* event, whose name is gone.
LstatOf(p, isDelete) == IF isDelete THEN {"err"} ELSE Lstat(p)

\* Whether the watcher call of the event case may fail: the case calls
\* RemoveWatch on a delete event and Watch on a directory it does not ignore.
WatchErrs(p, isDelete, st) ==
    IF isDelete \/ (st = "dir" /\ ~shouldIgnore(p)) THEN BOOLEAN ELSE {FALSE}

EventStep(paths, cap) ==
    \E p \in paths : \E isDelete \in BOOLEAN : \E st \in LstatOf(p, isDelete) :
        \E werr \in WatchErrs(p, isDelete, st) :
            /\ FsEvent(p, isDelete, st, werr)
            /\ Len(events') <= cap

\* The timer case of processFsEvents and the notifyBrowsers call it makes.
TickStep ==
    \/ Tick
    \/ NbLock
    \/ NbWrite
    \/ NbClear
    \/ NbClose
    \/ NbReturn

\* A step of the websocket handler of one of `cs`, or of its peer.
ClientStep(cs) ==
    \/ \E c \in cs : WsLock(c)
    \/ \E c \in cs : WsAppend(c)
    \/ \E c \in cs : WsReadReturn(c)
    \/ \E c \in cs : PeerDisconnect(c)

\* The whole program: every name, every client.
Next ==
    \/ StartStep
    \/ EventStep(Paths, MaxEvents)
    \/ TickStep
    \/ ClientStep(Clients)

Spec == Init /\ [][Next]_vars

\* The coalescer under every name of the tree, with one client connecting.
NextCoalescer ==
    \/ StartStep
    \/ EventStep(Paths, MaxEvents)
    \/ TickStep
    \/ ClientStep({1})

SpecCoalescer == Init /\ [][NextCoalescer]_vars

\* The registry under every client.  What the buffer holds does not matter to
\* the registry, only whether a tick finds it empty: the events are those of
\* two files (the flushed set of one of them is empty), one per window.
NextRegistry ==
    \/ StartStep
    \/ EventStep({pPlain, pSharpMid}, 1)
    \/ TickStep
    \/ ClientStep(Clients)

SpecRegistry == Init /\ [][NextRegistry]_vars

\* The coalescer under the names of the directory tree: the directories, a
\* file inside one of them and a file of the root; one client connecting.
NextDirs ==
    \/ StartStep
    \/ EventStep(Dirs \cup {pInDir, pPlain}, MaxEvents)
    \/ TickStep
    \/ ClientStep({1})

SpecDirs == Init /\ [][NextDirs]_vars

\* The program with two clients whose browsers may stop reading, under the
\* events of one file, one per window.
NextStall ==
    \/ StartStep
    \/ EventStep({pPlain}, 1)
    \/ TickStep
    \/ ClientStep({1, 2})
    \/ \E c \in {1, 2} : PeerStall(c)

SpecStall == Init /\ [][NextStall]_vars

\* The program with two clients under fair scheduling: the timer keeps
\* ticking and every call notifyBrowsers makes returns (the coalescer takes
\* its next step whenever it can), a handler at the lock gets it if it is
\* free again and again, and a handler that holds it goes on.  The events are
\* those of two files, one per window.
LiveClients == {1, 2}

NextLive ==
    \/ StartStep
    \/ EventStep({pPlain, pSharpMid}, 1)
    \/ TickStep
    \/ ClientStep(LiveClients)

Fairness ==
    /\ WF_vars(TickStep)
    /\ \A c \in LiveClients : SF_vars(WsLock(c)) /\ WF_vars(WsAppend(c))

SpecLive == Init /\ [][NextLive]_vars /\ Fairness

\* ------------------------------------------------------------------ claims
\* The elements of a sequence.
Range(q) == {q[k] : k \in 1..Len(q)}

\* The number of entries of the event sequence q that carry the name n.
CountName(q, n) == Cardinality({k \in 1..Len(q) : q[k].Name = n})

\* The number of times the client c occurs in the sequence q.
CountConn(q, c) == Cardinality({k \in 1..Len(q) : q[k] = c})

\* The base filename carries the editor's temp-file marker.
HasMarker(n) == Contains(Base(n), "#")

\* The base filename is that of a hidden file.
IsHidden(n) == Len(Base(n)) > 1 /\ HasPrefix(Base(n), ".")

\* processFsEvents is inside the notifyBrowsers call of a tick; events then
\* holds what cleanEvents returned for that tick (the flushed set).
Flushing == pc \in {"nbLock", "nbLoop", "nbDefer"}

\* C1. Window emptiness: notifyBrowsers is invoked for a window only when the
\* set left by the deduplication and the removal of '#' names is non-empty.
C1_BroadcastOnlyIfFlushedNonEmpty ==
    Flushing => events # <<>>

\* C2. Hidden-file exclusion: a name whose base begins with '.' (length > 1)
\* is never in the watch set and never in the flushed set, whatever the kind
\* of the raw events.
C2_HiddenNeverWatchedNorFlushed ==
    /\ \A d \in watched : ~IsHidden(d)
    /\ Flushing => \A k \in 1..Len(events) : ~IsHidden(events[k].Name)

\* C3. Temp-file exclusion: no event whose base filename contains '#' is in
\* the set cleanEvents returns, at any window boundary.
C3_NoMarkerInFlushed ==
    Flushing => \A k \in 1..Len(events) : ~HasMarker(events[k].Name)

\* C3's case: a tick has flushed a buffer that held an event with a '#' name.
C3_Witness ==
    /\ pc = "nbLock"
    /\ \E k \in 1..Len(tickInput) : HasMarker(tickInput[k].Name)
    /\ events # <<>>

\* C4. Dedup: every name without '#' that was buffered in the window, however
\* many times, has exactly one entry in the flushed set, and the flushed set
\* never holds two entries with the same name.
C4_OneEntryPerName ==
    /\ pc = "nbLock" =>
           \A k \in 1..Len(tickInput) :
               ~HasMarker(tickInput[k].Name) =>
                   CountName(events, tickInput[k].Name) = 1
    /\ Flushing =>
           \A j, k \in 1..Len(events) :
               events[j].Name = events[k].Name => j = k

\* C4's case: the flushed buffer held the same name (without '#') twice.
C4_Witness ==
    /\ pc = "nbLock"
    /\ \E j, k \in 1..Len(tickInput) :
           /\ j < k
           /\ tickInput[j].Name = tickInput[k].Name
           /\ ~HasMarker(tickInput[j].Name)
    /\ Len(events) = 1

\* Every entry of the buffer q carries the name n.
OnlyName(q, n) == \A k \in 1..Len(q) : q[k].Name = n

\* What C5 promises of the tick that finds a modification of the file n in
\* the buffer: one notifyBrowsers call, one flushed entry for n, and nothing
\* else flushed when nothing else was buffered.
OneBroadcastOnePath(n) ==
    /\ pc' = "nbLock"
    /\ calls' = 1
    /\ CountName(events', n) = 1
    /\ OnlyName(events, n) => Len(events') = 1

\* C5, as amended. Coalescing to one broadcast: when an existing, non-ignored
\* file whose base filename contains no '#' is modified k >= 1 times within a
\* window, the next tick invokes notifyBrowsers exactly once and flushes
\* exactly one entry for that file (the only entry when nothing else was
\* buffered); no tick ever invokes notifyBrowsers more than once.
C5_CoalescedToOneBroadcast ==
    [][/\ Tick =>
              \A k \in 1..Len(events) :
                  (~events[k].IsDelete /\ ~HasMarker(events[k].Name)) =>
                      OneBroadcastOnePath(events[k].Name)
       /\ calls' <= 1]_vars

\* C5's case: a tick has coalesced two modifications of one file.
C5_Witness ==
    /\ pc = "nbLock"
    /\ calls = 1
    /\ tickInput = <<FileEvent(pPlain, FALSE), FileEvent(pPlain, FALSE)>>
    /\ events = <<FileEvent(pPlain, FALSE)>>

\* C5, as stated: every existing, non-ignored (shouldIgnore false) file that
\* was modified within the window has exactly one entry in the set the next
\* tick flushes, and the tick invokes notifyBrowsers exactly once.
C5_Original ==
    pc = "nbLock" =>
        \A k \in 1..Len(tickInput) :
            ~tickInput[k].IsDelete =>
                calls = 1 /\ CountName(events, tickInput[k].Name) = 1

\* C6. An ignored file produces no broadcast: while the only raw events of a
\* window are non-delete events for an existing regular file that matches a
\* compiled ignore pattern, the buffer stays empty, and the tick that ends
\* such a window invokes notifyBrowsers zero times.
C6_IgnoredFileNoBroadcast ==
    /\ window = "ignored" => events = <<>>
    /\ tickSaw = "ignored" => calls = 0 /\ pc = "select"

\* C6's case: a tick has ended a window that held only such events.
C6_Witness ==
    /\ tickSaw = "ignored"
    /\ calls = 0
    /\ pc = "select"

\* processFsEvents holds the registry's mutex inside notifyBrowsers.
NbInCS == pc \in {"nbLoop", "nbDefer"}

\* C7. Broadcast fan-out: every connection that is in the registry when
\* notifyBrowsers has locked it is written exactly one message during the
\* call (no other connection is written), an open connection receives it,
\* and the registry is empty when the call returns, the mutex still held.
C7_FanOut ==
    /\ pc = "nbLoop" => rng = conns
    /\ pc = "nbDefer" =>
           /\ \A c \in Clients :
                  CountConn(wrote, c) = IF c \in Range(rng) THEN 1 ELSE 0
           /\ \A c \in Range(rng) \ failed : delivered[c] = 1
           /\ conns = <<>>
           /\ mutex = HeldByNb

\* C7's case: three registered clients, each written its message, the call
\* about to return.
C7_Witness ==
    /\ pc = "nbDefer"
    /\ defers = <<>>
    /\ Cardinality(Range(rng)) = 3
    /\ \A c \in Range(rng) : delivered[c] = 1 /\ writes[c] = 1

\* C8. Serialization of register and broadcast: wshandler's and
\* notifyBrowsers' critical sections never overlap; a broadcast writes only
\* to the connections registered when it took the lock; a client that has
\* registered and was not written to is still in the registry; no connection
\* is written to twice.
C8_Serialized ==
    /\ Cardinality({c \in Clients : hpc[c] = "cs"})
           + (IF NbInCS THEN 1 ELSE 0) <= 1
    /\ pc = "nbLoop" => conns = rng
    /\ Range(wrote) \subseteq Range(rng)
    /\ \A c \in Clients :
           (hpc[c] = "read" /\ writes[c] = 0) => c \in Range(conns)
    /\ \A c \in Clients : writes[c] <= 1

\* C8's case: after a broadcast that wrote to one client, another client,
\* registered since, is in the registry, unwritten.
C8_Witness ==
    /\ pc = "select"
    /\ \E c1, c2 \in Clients :
           /\ writes[c1] = 1
           /\ connState[c1] = "closed"
           /\ hpc[c2] = "read"
           /\ writes[c2] = 0
           /\ c2 \in Range(conns)

\* C9. Registry removal on disconnect: the registry never contains a
\* connection whose handler has ended (the client that disconnected on its
\* own was removed), so no broadcast writes to such a connection.
C9_NoEndedHandlerInRegistry ==
    \A c \in Clients : hpc[c] = "done" => c \notin Range(conns)

\* C10. Isolation of a bad client: when the write to one registered
\* connection fails, the broadcast still writes to every other registered
\* connection (the open ones receive the message), still clears the
\* registry, and goes on to return.
C10_BadClientIsolated ==
    /\ (pc = "nbDefer" /\ failed # {}) =>
           /\ Range(wrote) = Range(rng)
           /\ \A c \in Range(rng) \ failed : delivered[c] = 1
           /\ conns = <<>>
    /\ (NbInCS /\ failed # {}) => ENABLED TickStep

\* C10's case: a broadcast to three clients, the write to one of them failed
\* and the two others received the message.
C10_Witness ==
    /\ pc = "nbDefer"
    /\ Cardinality(failed) = 1
    /\ Cardinality({c \in Range(rng) : delivered[c] = 1}) = 2

\* C11. The coalescing task is decoupled from the clients: it never performs
\* or waits for a write on a client connection, so while a client's write
\* does not complete the coalescer can still take its next step and get back
\* to consuming events and ticks.
C11_CoalescerNeverWaitsOnClient ==
    \A c \in Clients :
        (NbInCS /\ connState[c] = "stalled") => ENABLED TickStep

\* C12. Watch failures are never fatal: a failure to add a watch during the
\* initial walk, or a walk entry that could not be read, is skipped and never
\* ends the process.
C12_WatchFailureNeverFatal == pc \notin {"fatal", "panic"}

\* The file f lies directly or deeper inside the directory d.
InDir(f, d) ==
    /\ Len(f) > Len(d) + 1
    /\ SubSeq(f, 1, Len(d)) = d
    /\ f[Len(d) + 1] = "/"

\* The step is the event case on a non-delete event of the directory d, with
\* the watcher accepting the call.
DirCreated(d) == FsEvent(d, FALSE, "dir", FALSE)

\* The step is the event case on a delete event of d; werr: RemoveWatch fails.
DirDeleted(d, werr) == FsEvent(d, TRUE, "err", werr)

\* C13. Directory lifecycle: a non-delete event for a non-ignored directory
\* puts it in the watch set; a later modification of a non-ignored file
\* inside it is buffered, and the tick that finds it buffered calls
\* notifyBrowsers; a delete event for a watched directory takes it out of the
\* watch set, and when the removal fails the loop goes on as it does
\* otherwise: the event is buffered and the loop is back at its select.
C13_DirectoryLifecycle ==
    [][ /\ \A d \in Dirs :
            (~shouldIgnore(d) /\ DirCreated(d)) => d \in watched'
        /\ \A d \in Dirs : \A f \in Files :
            ( /\ InDir(f, d) /\ d \in watched /\ ~shouldIgnore(f)
              /\ FsEvent(f, FALSE, "file", FALSE) )
            => events' = Append(events, FileEvent(f, FALSE))
        /\ (Tick /\ \E k \in 1..Len(events) : \E d \in Dirs :
                        InDir(events[k].Name, d))
            => (pc' = "nbLock" /\ calls' = 1)
        /\ \A d \in Dirs :
            (d \in watched /\ DirDeleted(d, FALSE)) => d \notin watched'
        /\ \A d \in Dirs :
            DirDeleted(d, TRUE) =>
                /\ pc' = "select"
                /\ events' = Append(events, FileEvent(d, TRUE))
                /\ UNCHANGED <<conns, mutex, calls>>
      ]_vars

\* C13's case: the directory d, created after startup, was put under watch by
\* the event case, and a tick is broadcasting for a modification of d/a.
C13_Witness ==
    /\ pc = "nbLock"
    /\ pDir \in watched
    /\ events = <<FileEvent(pInDir, FALSE)>>

\* The index of the last entry of the event sequence q that carries the name n.
LastOf(q, n) ==
    CHOOSE k \in 1..Len(q) :
        /\ q[k].Name = n
        /\ \A j \in (k + 1)..Len(q) : q[j].Name # n

\* C14. Last-write-wins: the buffer never holds more than one entry per
\* path, and the entry a flush keeps for a path is the last event received
\* for that path within the window.
C14_LastWriteWins ==
    /\ \A n \in Paths : CountName(events, n) <= 1
    /\ pc = "nbLock" =>
           \A k \in 1..Len(events) :
               events[k] = tickInput[LastOf(tickInput, events[k].Name)]

\* C15. Notify-then-close ordering inside a broadcast: each connection is
\* closed once its own message is sent, before the loop moves on and before
\* the registry is cleared, so no close is still to be performed on a
\* connection that is no longer in the registry.
C15_NotifyThenClose ==
    /\ pc = "nbLoop" =>
           \A k \in 1..(i - 1) : connState[rng[k]] = "closed"
    /\ \A k \in 1..Len(defers) : defers[k] \in Range(conns)

\* C16. Insert-time temp-marker exclusion: the pending event buffer never
\* contains an event whose base filename contains '#', delete or not.
C16_NoMarkerInBuffer ==
    pc = "select" => \A k \in 1..Len(events) : ~HasMarker(events[k].Name)

\* C17. Directory events do not trigger reload: a non-delete event of a
\* directory (its creation or a change of it) never enters the pending event
\* buffer, and a window whose only events are such events leaves the buffer
\* empty and triggers no broadcast at its tick.
C17_DirEventsNoReload ==
    /\ \A k \in 1..Len(events) :
           events[k].Name \in Dirs => events[k].IsDelete
    /\ window = "dirs" => (pc = "select" /\ events = <<>>)
    /\ tickSaw = "dirs" => (pc = "select" /\ calls = 0)

\* C17's case: a tick has closed a window whose only events were non-delete
\* events of directories, the directory d among them.
C17_Witness ==
    /\ tickSaw = "dirs"
    /\ window = "empty"
    /\ pDir \in watched
    /\ events = <<>>

\* C17, as stated: an event whose path is or was a directory never enters the
\* pending event buffer, the deletion of a directory included.
C17_Original ==
    \A k \in 1..Len(events) : events[k].Name \notin Dirs

\* The step is the event case on a non-delete event of p whose Lstat fails.
StatFailed(p) == FsEvent(p, FALSE, "err", FALSE)

\* C18. A stat failure on a non-delete event changes nothing: the buffer,
\* the watch set and the registry are as before and the loop is back at its
\* select; the tick that closes a window of such events only finds the
\* buffer empty and does not call notifyBrowsers.
C18_StatFailureNoEffect ==
    [][ /\ \A p \in Paths :
            StatFailed(p) =>
                /\ UNCHANGED <<events, watched, conns, mutex, connState>>
                /\ UNCHANGED <<calls, writes>>
                /\ pc' = "select"
        /\ (Tick /\ window = "errs") =>
                (events = <<>> /\ calls' = 0 /\ pc' = "select")
      ]_vars

\* C18's case: a tick has closed a window whose only events were non-delete
\* events whose Lstat failed, and it did not broadcast.
C18_Witness ==
    /\ tickSaw = "errs"
    /\ window = "empty"
    /\ calls = 0
    /\ pc = "select"

\* C19. Buffer reset at every window boundary: once the handling of a tick is
\* over (the loop is back at its select and no event has been received
\* since), the pending event buffer is empty, whether the tick broadcast or
\* not.
C19_BufferEmptyAfterTick ==
    (pc = "select" /\ window = "empty") => events = <<>>

\* C19's case: a tick found events buffered, broadcast to the registered
\* client, and its handling is over.
C19_Witness ==
    /\ pc = "select"
    /\ window = "empty"
    /\ tickSaw = "mixed"
    /\ calls = 1
    /\ writes[1] = 1
    /\ events = <<>>

\* The buffer holds a qualifying file event: a non-delete event of a
\* non-ignored file whose base filename has no '#'.
QualifyingBuffered ==
    /\ pc = "select"
    /\ \E k \in 1..Len(events) :
           /\ ~events[k].IsDelete
           /\ ~shouldIgnore(events[k].Name)
           /\ ~HasMarker(events[k].Name)

\* C20. No lost notification: under fair scheduling, every connection that
\* is in the registry while a qualifying file event is buffered is eventually
\* written the reload message and closed; and a handler waiting for the lock
\* that notifyBrowsers holds eventually completes its registration.
C20_NoLostNotification ==
    /\ \A c \in LiveClients :
           (QualifyingBuffered /\ c \in Range(conns))
               ~> (writes[c] >= 1 /\ connState[c] = "closed")
    /\ \A c \in LiveClients :
           (mutex = HeldByNb /\ hpc[c] = "lock")
               ~> (hpc[c] = "read" /\ mutex # HeldByWs(c))

\* C20's case: client 1 was registered, written the reload message and
\* closed, and client 2, which was waiting for the lock, has registered.
C20_Witness ==
    /\ delivered[1] = 1
    /\ connState[1] = "closed"
    /\ hpc[2] = "read"
    /\ conns = <<2>>
    /\ mutex = Free

====
